---- MODULE Spec2Model ----
(***************************************************************************)
(* Model of static/js/search.js: the client-side search of danryder.dev.   *)
(*                                                                         *)
(* JavaScript strings that the code inspects character by character (the   *)
(* query, the document text, the snippet markup) are sequences of          *)
(* one-character strings.  Strings the code only passes around (refs,      *)
(* permalinks, titles) are TLA+ strings; "" is the falsy (missing) value.  *)
(***************************************************************************)
EXTENDS Integers, Sequences, FiniteSets, TLC

VARIABLES
    \* ---- buildSnippet called on its own (SpecSnippet) ----
    text,          \* argument text
    query,         \* argument query
    maxLen,        \* argument maxLen
    snippet,       \* outcome of the call: [st, threw, html]
    \* ---- the page (Spec) and doSearch on its own (SpecRank) ----
    pc,            \* position of the fetch(...).then(...).then(...).catch(...) chain
    failure,       \* which step of the chain failed ("none" if none did)
    hasStatusEl,   \* document.getElementById("searchStatus") is not null
    statusText,    \* statusEl.textContent
    listener,      \* the "input" listener has been installed
    doSearchDefined, \* window.__doSearch is defined
    ready,         \* window.__searchReady: [kind, resolved]
    preset,        \* the value of ?q= (<<>>: absent or empty)
    inputValue,    \* input.value
    resultsEl,     \* the results container
    timers,        \* pending setTimeout timers: set of [id, left, ev]
    t,             \* debounce's variable t: id of the timer last scheduled (0: undefined)
    nextId,        \* next timer id setTimeout hands out
    evCount,       \* number of input events dispatched so far
    sinceInput,    \* ms since the last input event, capped at DebounceMs
    apiCalls,      \* number of calls of window.__doSearch by other scripts
    calls,         \* what has run so far: [fetch, search, sort, render, uncaught]
    served,        \* the input events whose timer has run doSearch
    lastFire,      \* the latest doSearch execution a debounce timer started
    last           \* the latest doSearch execution

vars == <<text, query, maxLen, snippet, pc, failure, hasStatusEl, statusText,
          listener, doSearchDefined, ready, preset, inputValue, resultsEl,
          timers, t, nextId, evCount, sinceInput, apiCalls, calls, served,
          lastFire, last>>

snippetVars == <<text, query, maxLen, snippet>>
pageVars == <<pc, failure, hasStatusEl, statusText, listener, doSearchDefined,
              ready, preset, inputValue, resultsEl, timers, t, nextId, evCount,
              sinceInput, apiCalls, calls, served, lastFire, last>>

----------------------------------------------------------------------------
(* Bounds of the model *)

MaxTextLen == 4
MaxQueryLen == 2
MaxMaxLen == 5
MaxEvents == 2
MaxApiCalls == 1
TickMs == 60
MaxHits == 22

(* Program constants *)

DefaultMaxLen == 200
DebounceMs == 120
TopN == 20
MinQueryLen == 2

----------------------------------------------------------------------------
(* JavaScript string primitives on sequences of characters *)

Min(a, b) == IF a < b THEN a ELSE b
Max(a, b) == IF a > b THEN a ELSE b

\* s.slice(a, b) for 0 <= a: the characters at 0-based positions a .. b-1
Slice(s, a, b) == SubSeq(s, a + 1, Min(b, Len(s)))

\* toLowerCase on one character (the letters the model's alphabets hold)
LowerChar(c) ==
    CASE c = "A" -> "a"
      [] c = "B" -> "b"
      [] OTHER -> c

toLowerCase(s) == [i \in 1..Len(s) |-> LowerChar(s[i])]

\* s.indexOf(sub): 0-based position of the first occurrence, -1 if none
indexOf(s, sub) ==
    LET hits == {p \in 0..(Len(s) - Len(sub)) : SubSeq(s, p + 1, p + Len(sub)) = sub}
    IN IF hits = {} THEN -1 ELSE CHOOSE p \in hits : \A q \in hits : p <= q

\* the concatenation of a sequence of strings
RECURSIVE Concat(_)
Concat(ss) == IF ss = <<>> THEN <<>> ELSE Head(ss) \o Concat(Tail(ss))

\* the characters the split pattern /[\s\-_/.,:;!?()]+/ consumes
SplitChars == {" ", "\t", "\n", "-", "_", "/", ".", ",", ":", ";", "!", "?", "(", ")"}

\* s.split(/[...]+/).filter(Boolean): the maximal runs of non-split characters
RECURSIVE SplitRuns(_, _)
SplitRuns(s, cur) ==
    IF s = <<>> THEN (IF cur = <<>> THEN <<>> ELSE <<cur>>)
    ELSE IF Head(s) \in SplitChars
         THEN (IF cur = <<>> THEN <<>> ELSE <<cur>>) \o SplitRuns(Tail(s), <<>>)
         ELSE SplitRuns(Tail(s), Append(cur, Head(s)))

tokenize(q) == SplitRuns(toLowerCase(q), <<>>)

----------------------------------------------------------------------------
(* buildSnippet: search.js lines 30-58 *)

\* the character U+2026 that buildSnippet puts where the window cuts the text
Ellipsis == "ELLIPSIS"

MarkOpen == <<"<", "m", "a", "r", "k", ">">>
MarkClose == <<"<", "/", "m", "a", "r", "k", ">">>

\* the replacement table of esc (line 49)
EscChar(c) ==
    CASE c = "&" -> <<"&", "a", "m", "p", ";">>
      [] c = "<" -> <<"&", "l", "t", ";">>
      [] c = ">" -> <<"&", "g", "t", ";">>
      [] c = "\"" -> <<"&", "q", "u", "o", "t", ";">>
      [] c = "'" -> <<"&", "#", "3", "9", ";">>
      [] OTHER -> <<c>>

esc(s) == Concat([i \in 1..Len(s) |-> EscChar(s[i])])

\* The character class of the pattern on line 53.  Inside the regex literal
\* /[.*+?^${}()|[\\]\\\\]/ the class ends at the first unescaped "]": it holds
\* . * + ? ^ $ { } ( ) | [ and the backslash, and the pattern goes on with two
\* literal backslashes and a literal "]".
EscapeClass == {".", "*", "+", "?", "^", "$", "{", "}", "(", ")", "|", "[", "\\"}

\* whether the pattern of line 53 matches tok at 1-based position i
EscapePatternAt(tok, i) ==
    /\ i + 3 <= Len(tok)
    /\ tok[i] \in EscapeClass
    /\ tok[i + 1] = "\\"
    /\ tok[i + 2] = "\\"
    /\ tok[i + 3] = "]"

\* tok.replace(/[.*+?^${}()|[\\]\\\\]/g, "\\$&"): a backslash before each match
RECURSIVE EscapeFrom(_, _)
EscapeFrom(tok, i) ==
    IF i > Len(tok) THEN <<>>
    ELSE IF EscapePatternAt(tok, i)
         THEN <<"\\">> \o SubSeq(tok, i, i + 3) \o EscapeFrom(tok, i + 4)
         ELSE <<tok[i]>> \o EscapeFrom(tok, i + 1)

escapeRegExp(tok) == EscapeFrom(tok, 1)

\* new RegExp("(" + body + ")", "gi") for a body of literals, "+" and
\* backslashes (the other regex characters a token may hold, * ^ $ { } | [,
\* are in no query of the model): a sequence of atoms [ch, plus], or a
\* SyntaxError.  "+" with
\* nothing to repeat is a SyntaxError; a backslash makes the next character a
\* literal, and at the end of the body it escapes the group's ")", which leaves
\* the group unterminated.
RECURSIVE ParseAtoms(_, _)
ParseAtoms(p, i) ==
    IF i > Len(p) THEN [ok |-> TRUE, atoms |-> <<>>]
    ELSE IF p[i] = "+" THEN [ok |-> FALSE, atoms |-> <<>>]
    ELSE IF p[i] = "\\" /\ i = Len(p) THEN [ok |-> FALSE, atoms |-> <<>>]
    ELSE LET escaped == p[i] = "\\"
             ch == IF escaped THEN p[i + 1] ELSE p[i]
             j == IF escaped THEN i + 2 ELSE i + 1
             plus == j <= Len(p) /\ p[j] = "+"
             rest == ParseAtoms(p, IF plus THEN j + 1 ELSE j)
         IN [ok |-> rest.ok, atoms |-> <<[ch |-> ch, plus |-> plus]>> \o rest.atoms]

NewRegExp(body) == ParseAtoms(body, 1)

\* number of consecutive characters of s from position j that equal ch,
\* ignoring case (flag i)
RECURSIVE RunLength(_, _, _)
RunLength(s, j, ch) ==
    IF j > Len(s) \/ LowerChar(s[j]) # LowerChar(ch) THEN 0
    ELSE 1 + RunLength(s, j + 1, ch)

\* the ends (position after the last matched character) of the matches of
\* atoms[k..] at position j of s, in the order a backtracking matcher tries
\* them: a greedy "+" takes the longest run first
RECURSIVE MatchEnds(_, _, _, _)
MatchEnds(atoms, k, s, j) ==
    IF k > Len(atoms) THEN <<j>>
    ELSE LET run == RunLength(s, j, atoms[k].ch)
         IN IF run = 0 THEN <<>>
            ELSE IF ~atoms[k].plus THEN MatchEnds(atoms, k + 1, s, j + 1)
            ELSE Concat([m \in 1..run |-> MatchEnds(atoms, k + 1, s, j + (run - m + 1))])

\* s.replace(re, "<mark>$1</mark>") with flag g: leftmost matches, left to right
RECURSIVE ReplaceFrom(_, _, _)
ReplaceFrom(s, atoms, j) ==
    IF j > Len(s) THEN <<>>
    ELSE LET ends == MatchEnds(atoms, 1, s, j)
         IN IF ends = <<>>
            THEN <<s[j]>> \o ReplaceFrom(s, atoms, j + 1)
            ELSE MarkOpen \o SubSeq(s, j, ends[1] - 1) \o MarkClose
                 \o ReplaceFrom(s, atoms, ends[1])

\* one pass of the forEach of lines 51-55
HighlightToken(html, tok) ==
    LET re == NewRegExp(escapeRegExp(tok))
    IN IF re.ok
       THEN [threw |-> FALSE, html |-> ReplaceFrom(html, re.atoms, 1)]
       ELSE [threw |-> TRUE, html |-> html]

\* tokens.forEach(...) of lines 51-55: a SyntaxError ends the loop
RECURSIVE HighlightAll(_, _)
HighlightAll(html, tokens) ==
    IF tokens = <<>> THEN [threw |-> FALSE, html |-> html]
    ELSE LET one == HighlightToken(html, Head(tokens))
         IN IF one.threw THEN one ELSE HighlightAll(one.html, Tail(tokens))

\* the loop of lines 37-41: the earliest occurrence of any token, -1 if none
RECURSIVE EarliestPos(_, _, _)
EarliestPos(lc, tokens, pos) ==
    IF tokens = <<>> THEN pos
    ELSE LET p == indexOf(lc, Head(tokens))
         IN EarliestPos(lc, Tail(tokens),
                        IF p # -1 /\ (pos = -1 \/ p < pos) THEN p ELSE pos)

Returned(html) == [st |-> "returned", threw |-> FALSE, html |-> html]
Threw == [st |-> "returned", threw |-> TRUE, html |-> <<>>]

buildSnippet(txt, qry, mxLen) ==
    IF txt = <<>> THEN Returned(<<>>)
    ELSE LET lc == toLowerCase(txt)
             tokens == tokenize(qry)
         IN IF tokens = <<>> THEN Returned(Slice(txt, 0, mxLen))
            ELSE LET pos == EarliestPos(lc, tokens, -1)
                 IN IF pos = -1 THEN Returned(Slice(txt, 0, mxLen))
                    ELSE LET start == Max(0, pos - (mxLen \div 3))
                             end == Min(Len(txt), start + mxLen)
                             slice == Slice(txt, start, end)
                             marked == HighlightAll(esc(slice), tokens)
                         IN IF marked.threw THEN Threw
                            ELSE Returned((IF start > 0 THEN <<Ellipsis>> ELSE <<>>)
                                          \o marked.html
                                          \o (IF end < Len(txt) THEN <<Ellipsis>> ELSE <<>>))

----------------------------------------------------------------------------
(* The document store and the hits of the index *)

EmptyDoc ==
    [permalink |-> "", url |-> "", title |-> "",
     summary |-> <<>>, description |-> <<>>, content |-> <<>>, body |-> <<>>]

\* idx.documentStore.docs of the loaded index
store ==
    [r \in {"/cats/", "/cpp/"} |->
        IF r = "/cats/"
        THEN [EmptyDoc EXCEPT !.permalink = "https://danryder.dev/cats/",
                              !.title = "Cats",
                              !.body = <<"A", "a", "<">>]
        ELSE [EmptyDoc EXCEPT !.url = "/cpp/",
                              !.summary = <<"a", "+", "+">>,
                              !.body = <<"a", "a">>]]

refs == DOMAIN store

Hit(r, sc) == [ref |-> r, score |-> sc]

\* what idx.search may return on the page: refs of the store, a ref the store
\* does not hold, and the empty ref
PageHitLists ==
    { <<>>,
      <<Hit("/cats/", 1), Hit("/gone/", 3), Hit("/cpp/", 2), Hit("", 3)>> }

----------------------------------------------------------------------------
(* render: search.js lines 85-114 *)

EmptyResults == [kind |-> "empty", items |-> <<>>]
NoResults == [kind |-> "noresults", items |-> <<>>]

\* store[hit.ref] || {}
DocOf(ref) == IF ref \in DOMAIN store THEN store[ref] ELSE EmptyDoc

\* a bug: the fallback chain without hit.ref
LinkHref_NoRef(doc, ref) ==
    IF doc.permalink # "" THEN doc.permalink
    ELSE IF doc.url # "" THEN doc.url
    ELSE "#"

\* doc.permalink || doc.url || hit.ref || "#"
LinkHref(doc, ref) ==
    IF doc.permalink # "" THEN doc.permalink
    ELSE IF doc.url # "" THEN doc.url
    ELSE IF ref # "" THEN ref
    ELSE "#"

\* doc.title || doc.permalink || "Untitled"
LinkText(doc) ==
    IF doc.title # "" THEN doc.title
    ELSE IF doc.permalink # "" THEN doc.permalink
    ELSE "Untitled"

\* (doc.summary || doc.description || doc.content || doc.body || "").toString()
RawText(doc) ==
    IF doc.summary # <<>> THEN doc.summary
    ELSE IF doc.description # <<>> THEN doc.description
    ELSE IF doc.content # <<>> THEN doc.content
    ELSE doc.body

\* lines 94-111: the <li> of a hit whose document is doc and whose snippet is
\* snip (ref: the hit it was made for), or the exception of buildSnippet
ListItem(ref, doc, snip) ==
    [threw |-> snip.threw,
     ref |-> ref,
     href |-> LinkHref(doc, ref),
     textContent |-> LinkText(doc),
     hasSnippet |-> snip.html # <<>>,
     snippet |-> snip.html]

\* the body of hits.forEach
RenderItem(hit, qry) ==
    ListItem(hit.ref, DocOf(hit.ref),
             buildSnippet(RawText(DocOf(hit.ref)), qry, DefaultMaxLen))

\* lines 91-113.  An exception leaves the container as line 86 emptied it: the
\* <ul> is appended only on line 113.
ListOf(items) ==
    IF \E i \in 1..Len(items) : items[i].threw
    THEN [threw |-> TRUE, el |-> EmptyResults]
    ELSE [threw |-> FALSE, el |-> [kind |-> "ul", items |-> items]]

\* render(hits, query): the new content of resultsEl
render(hits, qry) ==
    IF hits = <<>> THEN [threw |-> FALSE, el |-> NoResults]
    ELSE ListOf([i \in 1..Len(hits) |-> RenderItem(hits[i], qry)])

----------------------------------------------------------------------------
(* doSearch: search.js lines 117-139 *)

Whitespace == {" ", "\t", "\n"}

RECURSIVE TrimStart(_)
TrimStart(s) ==
    IF s # <<>> /\ Head(s) \in Whitespace THEN TrimStart(Tail(s)) ELSE s

RECURSIVE TrimEnd(_)
TrimEnd(s) ==
    IF s # <<>> /\ s[Len(s)] \in Whitespace THEN TrimEnd(SubSeq(s, 1, Len(s) - 1)) ELSE s

trim(s) == TrimEnd(TrimStart(s))

\* null, as an argument of doSearch and window.__doSearch
Null == <<"NULL">>

\* q || ""
OrEmpty(q) == IF q = Null THEN <<>> ELSE q

\* sorted.splice: h goes before the first entry the comparator (b.score - a.score)
\* puts after it, so equal scores keep the order of the index (a stable sort)
RECURSIVE InsertDesc(_, _)
InsertDesc(sorted, h) ==
    IF sorted = <<>> THEN <<h>>
    ELSE IF Head(sorted).score < h.score THEN <<h>> \o sorted
    ELSE <<Head(sorted)>> \o InsertDesc(Tail(sorted), h)

\* hits.sort((a,b) => (b.score - a.score))
RECURSIVE SortDesc(_)
SortDesc(hits) ==
    IF hits = <<>> THEN <<>>
    ELSE InsertDesc(SortDesc(SubSeq(hits, 1, Len(hits) - 1)), hits[Len(hits)])

\* a bug: the slice without the sort
TopHits_Unsorted(hits) == Slice(hits, 0, TopN)

\* hits.sort(...).slice(0, 20)
TopHits(hits) == Slice(SortDesc(hits), 0, TopN)

\* the record of an execution of doSearch that src started with argument q:
\* lines 134-138 with hits what idx.search returned, top what went to render
\* and r what render did
Searched(src, q, hits, top, r) ==
    [src |-> src, q |-> q, hits |-> hits, top |-> top, searched |-> TRUE,
     sorted |-> TRUE, rendered |-> TRUE, threw |-> r.threw, el |-> r.el]

\* lines 119-122: the query is too short
Cleared(src, q) ==
    [src |-> src, q |-> q, hits |-> <<>>, top |-> <<>>, searched |-> FALSE,
     sorted |-> FALSE, rendered |-> FALSE, threw |-> FALSE, el |-> EmptyResults]

\* line 138
RenderTop(src, q, hits, top) ==
    Searched(src, q, hits, top, render(top, trim(OrEmpty(q))))

\* a bug: the length test without the trim
TooShort_NoTrim(q) == Len(OrEmpty(q)) < MinQueryLen

\* lines 118-119: (q || "").trim().length < 2
TooShort(q) == Len(trim(OrEmpty(q))) < MinQueryLen

\* doSearch(q) started by src, hits being what idx.search returns for the
\* query: what the call did, and the new content of resultsEl
doSearch(src, q, hits) ==
    IF TooShort(q)
    THEN Cleared(src, q)
    ELSE RenderTop(src, q, hits, TopHits(hits))

----------------------------------------------------------------------------
(* The page: status text, readiness signal, debounce *)

InitialStatus == [msg |-> "", n |-> 0]
\* `Ready — ${refs.length} pages indexed`
ReadyStatus == [msg |-> "Ready - n pages indexed", n |-> Cardinality(refs)]
FailedStatus == [msg |-> "Search failed to load.", n |-> 0]

\* setStatus(msg): the new statusEl.textContent
setStatus(msg, old) == IF hasStatusEl THEN msg ELSE old

\* window.__searchReady before the load handler runs: absent, a deferred that
\* carries its resolver as __resolve, or a value that carries no __resolve
ReadyKinds == {"absent", "deferred", "foreign"}

ReadyInit(kind) == [initial |-> kind, kind |-> kind, resolved |-> 0, wiredAtResolve |-> FALSE]

\* fetch: the number of fetches issued; search, sort, render: whether idx.search,
\* hits.sort and render have been called; uncaught: whether an exception has
\* left the module
NoCalls == [fetch |-> 0, search |-> FALSE, sort |-> FALSE, render |-> FALSE,
            uncaught |-> FALSE]

NoRun == Cleared("none", <<>>)

NoFire == [ev |-> 0, evAtFire |-> 0, quiet |-> 0, arg |-> <<>>, inputAtFire |-> <<>>,
           again |-> FALSE]

\* calls after one execution of doSearch; escapes: its exception is not caught
Counted(c, run, escapes) ==
    [c EXCEPT !.search = @ \/ run.searched,
              !.sort = @ \/ run.sorted,
              !.render = @ \/ run.rendered,
              !.uncaught = @ \/ (escapes /\ run.threw)]

\* a bug: no clearTimeout(t)
debounce_NoClear(pending, last_t, id, ev, ms) ==
    pending \cup {[id |-> id, left |-> ms, ev |-> ev]}

\* the function debounce returns, called for input event number ev:
\* clearTimeout(t); t = setTimeout(..., ms).  The new set of pending timers.
debounce(pending, last_t, id, ev, ms) ==
    {tm \in pending : tm.id # last_t} \cup {[id |-> id, left |-> ms, ev |-> ev]}

\* the wiring steps of the load handler, on the record
\* [listener, doSearchDefined, ready] of what they change

\* line 142
AddInputListener(w) == [w EXCEPT !.listener = TRUE]

\* lines 146-151
EnsureSearchReady(w) ==
    IF w.ready.kind = "absent" THEN [w EXCEPT !.ready.kind = "deferred"] ELSE w

\* lines 154-158
DefineDoSearch(w) == [w EXCEPT !.doSearchDefined = TRUE]

\* lines 161-164: resolve and delete __resolve, if it is a function
SignalReady(w) ==
    IF w.ready.kind = "deferred"
    THEN [w EXCEPT !.ready.kind = "settled",
                   !.ready.resolved = @ + 1,
                   !.ready.wiredAtResolve = w.listener /\ w.doSearchDefined]
    ELSE w

\* a bug: the signal before window.__doSearch is defined
Wire_SignalEarly(w) ==
    DefineDoSearch(SignalReady(EnsureSearchReady(AddInputListener(w))))

\* lines 142-164 in the order of the code
Wire(w) == SignalReady(DefineDoSearch(EnsureSearchReady(AddInputListener(w))))

----------------------------------------------------------------------------
(* Inputs of the model *)

\* all sequences over alphabet of length at most n
RECURSIVE SeqsUpTo(_, _)
SeqsUpTo(alphabet, n) ==
    IF n = 0 THEN {<<>>}
    ELSE LET shorter == SeqsUpTo(alphabet, n - 1)
         IN shorter \cup {Append(s, c) : s \in {x \in shorter : Len(x) = n - 1},
                                         c \in alphabet}

TextChars == {"a", "A", "<", "+"}
QueryChars == {"a", "+", " ", "z"}

Texts == SeqsUpTo(TextChars, MaxTextLen)

\* queries whose tokens take the branches of escapeRegExp and NewRegExp that
\* short queries do not reach
SpecialQueries ==
    { <<"a", "+", "+">>,
      <<"a", " ", "\\">>,
      <<"a", " ", "+", "\\", "\\", "]">> }

Queries == SeqsUpTo(QueryChars, MaxQueryLen) \cup SpecialQueries

MaxLens == 1..MaxMaxLen

Pending == [st |-> "pending", threw |-> FALSE, html |-> <<>>]

\* the value every page variable keeps while buildSnippet is studied on its own
PageIdle ==
    /\ pc = "idle"
    /\ failure = "none"
    /\ hasStatusEl = TRUE
    /\ statusText = InitialStatus
    /\ listener = FALSE
    /\ doSearchDefined = FALSE
    /\ ready = ReadyInit("absent")
    /\ preset = <<>>
    /\ inputValue = <<>>
    /\ resultsEl = EmptyResults
    /\ timers = {}
    /\ t = 0
    /\ nextId = 1
    /\ evCount = 0
    /\ sinceInput = 0
    /\ apiCalls = 0
    /\ calls = NoCalls
    /\ served = {}
    /\ lastFire = NoFire
    /\ last = NoRun

----------------------------------------------------------------------------
(* SpecSnippet: buildSnippet(text, query, maxLen) on every input of the bounds *)

InitSnippet ==
    /\ text \in Texts
    /\ query \in Queries
    /\ maxLen \in MaxLens
    /\ snippet = Pending
    /\ PageIdle

CallBuildSnippet ==
    /\ snippet.st = "pending"
    /\ snippet' = buildSnippet(text, query, maxLen)
    /\ UNCHANGED <<text, query, maxLen>>
    /\ UNCHANGED pageVars

NextSnippet == CallBuildSnippet

SpecSnippet == InitSnippet /\ [][NextSnippet]_vars

----------------------------------------------------------------------------
(* Spec: the page, from the fetch of line 65 on *)

\* the values the input box, ?q= and callers of window.__doSearch hold
PageQueries == { <<>>, <<"a", "a">>, <<"a", "+", "+">> }

SnippetIdle ==
    /\ text = <<>>
    /\ query = <<>>
    /\ maxLen = DefaultMaxLen
    /\ snippet = Pending

Init ==
    /\ SnippetIdle
    /\ pc = "fetching"
    /\ failure = "none"
    /\ hasStatusEl \in BOOLEAN
    /\ statusText = InitialStatus
    /\ listener = FALSE
    /\ doSearchDefined = FALSE
    /\ ready \in {ReadyInit(k) : k \in ReadyKinds}
    /\ preset \in PageQueries
    /\ inputValue = <<>>
    /\ resultsEl = EmptyResults
    /\ timers = {}
    /\ t = 0
    /\ nextId = 1
    /\ evCount = 0
    /\ sinceInput = 0
    /\ apiCalls = 0
    /\ calls = [NoCalls EXCEPT !.fetch = 1]
    /\ served = {}
    /\ lastFire = NoFire
    /\ last = NoRun

loadVars == <<pc, failure, statusText, listener, doSearchDefined, ready>>
timerVars == <<timers, t, nextId, evCount, sinceInput>>
searchVars == <<resultsEl, calls, served, lastFire, last>>

\* a step of the promise chain fails: the chain goes to the catch handler
Reject(why) ==
    /\ pc' = "catch"
    /\ failure' = why
    /\ UNCHANGED <<statusText, listener, doSearchDefined, ready>>
    /\ UNCHANGED <<hasStatusEl, preset, inputValue, apiCalls>>
    /\ UNCHANGED timerVars
    /\ UNCHANGED searchVars
    /\ UNCHANGED snippetVars

\* fetch(indexUrl) rejects (network failure)
FetchRejects == pc = "fetching" /\ Reject("fetch")

\* line 67: the response is not ok
ResponseNotOk == pc = "fetching" /\ Reject("status")

\* line 68: the response is ok and r.json() starts
ResponseOk ==
    /\ pc = "fetching"
    /\ pc' = "json"
    /\ UNCHANGED <<failure, statusText, listener, doSearchDefined, ready>>
    /\ UNCHANGED <<hasStatusEl, preset, inputValue, apiCalls>>
    /\ UNCHANGED timerVars
    /\ UNCHANGED searchVars
    /\ UNCHANGED snippetVars

\* r.json() rejects: the body is not JSON
JsonFails == pc = "json" /\ Reject("json")

\* r.json() resolves: the second then-callback is due
JsonOk ==
    /\ pc = "json"
    /\ pc' = "build"
    /\ UNCHANGED <<failure, statusText, listener, doSearchDefined, ready>>
    /\ UNCHANGED <<hasStatusEl, preset, inputValue, apiCalls>>
    /\ UNCHANGED timerVars
    /\ UNCHANGED searchVars
    /\ UNCHANGED snippetVars

\* a bug: the input listener installed before the index is built
IndexLoadThrows_Wired ==
    /\ pc = "build"
    /\ pc' = "catch"
    /\ failure' = "build"
    /\ listener' = TRUE
    /\ UNCHANGED <<statusText, doSearchDefined, ready>>
    /\ UNCHANGED <<hasStatusEl, preset, inputValue, apiCalls>>
    /\ UNCHANGED timerVars
    /\ UNCHANGED searchVars
    /\ UNCHANGED snippetVars

\* lines 72-80 throw: elasticlunr.Index.load(raw) cannot build the index
IndexLoadThrows == pc = "build" /\ Reject("build")

\* lines 70-172 run to the end or to the exception of the preset search
LoadHandler ==
    /\ pc = "build"
    /\ LET w == Wire([listener |-> listener, doSearchDefined |-> doSearchDefined,
                      ready |-> ready])
       IN /\ listener' = w.listener
          /\ doSearchDefined' = w.doSearchDefined
          /\ ready' = w.ready
          /\ IF preset # <<>> /\ w.doSearchDefined
             THEN /\ \E hits \in PageHitLists : last' = doSearch("preset", preset, hits)
                  /\ inputValue' = preset
                  /\ resultsEl' = last'.el
                  /\ calls' = Counted(calls, last', FALSE)
                  /\ pc' = IF last'.threw THEN "catch" ELSE "done"
             ELSE /\ pc' = "done"
                  /\ UNCHANGED <<inputValue, resultsEl, calls, last>>
    /\ statusText' = setStatus(ReadyStatus, statusText)
    /\ UNCHANGED <<failure, hasStatusEl, preset, apiCalls, served, lastFire>>
    /\ UNCHANGED timerVars
    /\ UNCHANGED snippetVars

\* lines 173-176
CatchHandler ==
    /\ pc = "catch"
    /\ pc' = "done"
    /\ statusText' = setStatus(FailedStatus, statusText)
    /\ UNCHANGED <<failure, listener, doSearchDefined, ready>>
    /\ UNCHANGED <<hasStatusEl, preset, inputValue, apiCalls>>
    /\ UNCHANGED timerVars
    /\ UNCHANGED searchVars
    /\ UNCHANGED snippetVars

\* no task runs between a rejection and the catch handler (microtasks)
TaskMayRun == pc # "catch"

\* the user edits the input box: an input event, and the listener if installed
InputEvent ==
    /\ TaskMayRun
    /\ evCount < MaxEvents
    /\ \E v \in PageQueries \ {inputValue} : inputValue' = v
    /\ evCount' = evCount + 1
    /\ sinceInput' = 0
    /\ IF listener
       THEN /\ timers' = debounce(timers, t, nextId, evCount + 1, DebounceMs)
            /\ t' = nextId
            /\ nextId' = nextId + 1
       ELSE UNCHANGED <<timers, t, nextId>>
    /\ UNCHANGED loadVars
    /\ UNCHANGED <<hasStatusEl, preset, apiCalls>>
    /\ UNCHANGED searchVars
    /\ UNCHANGED snippetVars

\* time passes, up to the moment the next timer is due
Tick ==
    /\ TaskMayRun
    /\ \A tm \in timers : tm.left > 0
    /\ timers # {} \/ sinceInput < DebounceMs
    /\ LET d == IF \E tm \in timers : tm.left < TickMs
                THEN CHOOSE x \in {tm.left : tm \in timers} :
                        \A tm \in timers : x <= tm.left
                ELSE TickMs
       IN /\ timers' = {[tm EXCEPT !.left = @ - d] : tm \in timers}
          /\ sinceInput' = Min(DebounceMs, sinceInput + d)
    /\ UNCHANGED <<t, nextId, evCount>>
    /\ UNCHANGED loadVars
    /\ UNCHANGED <<hasStatusEl, preset, inputValue, apiCalls>>
    /\ UNCHANGED searchVars
    /\ UNCHANGED snippetVars

\* the value the timer callback of line 142 passes to doSearch: e.target.value,
\* read when the callback runs
TimerArgument(tm) == inputValue

\* a due timer runs (e) => doSearch(e.target.value); an exception is uncaught
TimerFires ==
    /\ TaskMayRun
    /\ \E tm \in timers :
        /\ tm.left = 0
        /\ timers' = timers \ {tm}
        /\ \E hits \in PageHitLists : last' = doSearch("timer", TimerArgument(tm), hits)
        /\ resultsEl' = last'.el
        /\ calls' = Counted(calls, last', TRUE)
        /\ served' = served \cup {tm.ev}
        /\ lastFire' = [ev |-> tm.ev, evAtFire |-> evCount,
                        quiet |-> sinceInput, arg |-> last'.q,
                        inputAtFire |-> inputValue,
                        again |-> tm.ev \in served]
    /\ UNCHANGED <<t, nextId, evCount, sinceInput>>
    /\ UNCHANGED loadVars
    /\ UNCHANGED <<hasStatusEl, preset, inputValue, apiCalls>>
    /\ UNCHANGED snippetVars

\* another script calls window.__doSearch(q) (lines 154-158); an exception
\* goes to that caller
CallDoSearch(qs, hitLists) ==
    /\ TaskMayRun
    /\ doSearchDefined
    /\ apiCalls < MaxApiCalls
    /\ apiCalls' = apiCalls + 1
    /\ \E q \in qs, hits \in hitLists : last' = doSearch("api", OrEmpty(q), hits)
    /\ inputValue' = last'.q
    /\ resultsEl' = last'.el
    /\ calls' = Counted(calls, last', TRUE)
    /\ UNCHANGED <<served, lastFire>>
    /\ UNCHANGED loadVars
    /\ UNCHANGED <<hasStatusEl, preset>>
    /\ UNCHANGED timerVars
    /\ UNCHANGED snippetVars

ApiCall == CallDoSearch(PageQueries \cup {Null}, PageHitLists)

Next ==
    \/ FetchRejects
    \/ ResponseNotOk
    \/ ResponseOk
    \/ JsonFails
    \/ JsonOk
    \/ IndexLoadThrows
    \/ LoadHandler
    \/ CatchHandler
    \/ InputEvent
    \/ Tick
    \/ TimerFires
    \/ ApiCall

Spec == Init /\ [][Next]_vars

----------------------------------------------------------------------------
(* SpecRank: one call of window.__doSearch on the page as a successful load
   with no preset leaves it, for the hit lists of a larger index *)

\* the ref of the i-th document of the larger index
RefNo(i) == IF i = 1 THEN "/cats/" ELSE IF i = 2 THEN "/cpp/" ELSE ToString(i)

\* hit lists of up to MaxHits hits, in the order of the index, with scores that
\* rise, fall and repeat along the list
RankHitLists ==
    { [i \in 1..n |-> Hit(RefNo(i), (a * i + b) % m)] :
        n \in 0..MaxHits, a \in 1..2, b \in 0..1, m \in 1..3 }

RankQueries ==
    { Null, <<>>, <<"a">>, <<" ", " ", " ">>, <<" ", "a", " ">>, <<"\t", "a", "\n">>,
      <<"a", "a">>, <<" ", "a", "z", " ">> }

InitRank ==
    /\ SnippetIdle
    /\ pc = "done"
    /\ failure = "none"
    /\ hasStatusEl = TRUE
    /\ statusText = ReadyStatus
    /\ listener = TRUE
    /\ doSearchDefined = TRUE
    /\ ready = [initial |-> "absent", kind |-> "settled", resolved |-> 1,
                wiredAtResolve |-> TRUE]
    /\ preset = <<>>
    /\ inputValue = <<>>
    /\ resultsEl = EmptyResults
    /\ timers = {}
    /\ t = 0
    /\ nextId = 1
    /\ evCount = 0
    /\ sinceInput = 0
    /\ apiCalls = 0
    /\ calls = [NoCalls EXCEPT !.fetch = 1]
    /\ served = {}
    /\ lastFire = NoFire
    /\ last = NoRun

RankCall == apiCalls = 0 /\ CallDoSearch(RankQueries, RankHitLists)

NextRank == RankCall

SpecRank == InitRank /\ [][NextRank]_vars

----------------------------------------------------------------------------
(* Properties of buildSnippet, stated for SpecSnippet *)

StartsWith(s, i, sub) ==
    /\ i + Len(sub) - 1 <= Len(s)
    /\ SubSeq(s, i, i + Len(sub) - 1) = sub

Entities ==
    { <<"&", "a", "m", "p", ";">>, <<"&", "l", "t", ";">>, <<"&", "g", "t", ";">>,
      <<"&", "q", "u", "o", "t", ";">>, <<"&", "#", "3", "9", ";">> }

\* html, read from position i, holds the five HTML-sensitive characters only
\* inside a <mark> or </mark> tag or as the "&" that starts an entity
RECURSIVE EscapedFrom(_, _)
EscapedFrom(html, i) ==
    IF i > Len(html) THEN TRUE
    ELSE IF StartsWith(html, i, MarkOpen) THEN EscapedFrom(html, i + Len(MarkOpen))
    ELSE IF StartsWith(html, i, MarkClose) THEN EscapedFrom(html, i + Len(MarkClose))
    ELSE IF html[i] \in {"<", ">", "\"", "'"} THEN FALSE
    ELSE IF html[i] = "&"
         THEN \E e \in Entities :
                 StartsWith(html, i, e) /\ EscapedFrom(html, i + Len(e))
         ELSE EscapedFrom(html, i + 1)

\* C1: on every return path, the string buildSnippet returns holds no raw
\* < > & " ' of the source text: each appears only in its escaped form.
C1_AlwaysEscaped ==
    (snippet.st = "returned" /\ ~snippet.threw) => EscapedFrom(snippet.html, 1)

SomeTokenOccurs ==
    \E k \in 1..Len(tokenize(query)) :
        indexOf(toLowerCase(text), tokenize(query)[k]) # -1

\* C2: for a non-empty text shorter than maxLen and a query one of whose
\* tokens occurs in it, buildSnippet returns the whole text, escaped and
\* highlighted, with no leading and no trailing ellipsis, wherever the earliest
\* match is.  (Stated for the calls that return, so that a violation is one of
\* the window and not the SyntaxError of C4.)
C2_ShortTextWhole ==
    (/\ snippet.st = "returned"
     /\ ~snippet.threw
     /\ text # <<>>
     /\ Len(text) < maxLen
     /\ SomeTokenOccurs)
    => /\ snippet.html = HighlightAll(esc(text), tokenize(query)).html
       /\ Head(snippet.html) # Ellipsis
       /\ snippet.html[Len(snippet.html)] # Ellipsis

\* the atoms of the pattern that matches tok literally
LiteralAtoms(tok) == [i \in 1..Len(tok) |-> [ch |-> tok[i], plus |-> FALSE]]

\* C4: for every token of the query, building the highlight pattern never
\* fails, and the pattern matches exactly the case-insensitive literal
\* occurrences of the token.
C4_TokensMatchLiterally ==
    (snippet.st = "returned" /\ text # <<>> /\ SomeTokenOccurs)
    => /\ ~snippet.threw
       /\ \A k \in 1..Len(tokenize(query)) :
            LET tok == tokenize(query)[k]
                re == NewRegExp(escapeRegExp(tok))
            IN /\ re.ok
               /\ ReplaceFrom(esc(text), re.atoms, 1)
                    = ReplaceFrom(esc(text), LiteralAtoms(tok), 1)

----------------------------------------------------------------------------
(* Properties of render, the load and the debounce, stated for Spec *)

MissingItems ==
    IF resultsEl.kind = "ul"
    THEN {i \in 1..Len(resultsEl.items) : resultsEl.items[i].ref \notin DOMAIN store}
    ELSE {}

\* C3 as stated: for every hit whose ref is not a key of the document store,
\* render produces an item whose link target is "#", whose link text is
\* "Untitled", and which has no snippet.
C3_MissingDocLinksToHash ==
    \A i \in MissingItems :
        /\ resultsEl.items[i].href = "#"
        /\ resultsEl.items[i].textContent = "Untitled"
        /\ ~resultsEl.items[i].hasSnippet

\* C3 as amended: for every hit whose ref is not a key of the document store,
\* render produces an item whose link target is the hit's ref, or "#" when the
\* ref is empty, whose link text is "Untitled", and which has no snippet.
C3_MissingDocLinksToRef ==
    \A i \in MissingItems :
        /\ resultsEl.items[i].href
             = (IF resultsEl.items[i].ref # "" THEN resultsEl.items[i].ref ELSE "#")
        /\ resultsEl.items[i].textContent = "Untitled"
        /\ ~resultsEl.items[i].hasSnippet

\* a rendered list with a hit of a non-empty unknown ref and a hit of the empty ref
C3_Witness ==
    /\ \E i \in MissingItems : resultsEl.items[i].ref # ""
    /\ \E i \in MissingItems : resultsEl.items[i].ref = ""

\* C5: when the index load fails (fetch rejects, status not ok, body not JSON,
\* index not built), the status text becomes "Search failed to load." (on a
\* page that has a status element) and search stays inert: no input listener,
\* no window.__doSearch, no search, sort or render, no timer, no second fetch,
\* and no exception leaves the module, whatever the user types afterwards.
C5_LoadFailureInert ==
    failure # "none" =>
        /\ pc \in {"catch", "done"}
        /\ (pc = "done" /\ hasStatusEl) => statusText = FailedStatus
        /\ ~listener
        /\ ~doSearchDefined
        /\ ~calls.search /\ ~calls.sort /\ ~calls.render
        /\ last.src = "none"
        /\ resultsEl = EmptyResults
        /\ timers = {}
        /\ calls.fetch = 1
        /\ ~calls.uncaught

\* the index could not be built, the status says so, and the user has typed
\* and then paused for the debounce delay
C5_Witness ==
    /\ failure = "build"
    /\ pc = "done"
    /\ statusText = FailedStatus
    /\ evCount = MaxEvents
    /\ sinceInput = DebounceMs

\* the load handler has run: the index is loaded and the wiring done
LoadSucceeded == failure = "none" /\ pc \in {"catch", "done"} /\ listener

\* C6 as stated: window.__searchReady is resolved exactly once in every
\* execution in which the load succeeds, at most once in any, and never before
\* the listener is installed and window.__doSearch defined, also when
\* window.__searchReady exists before the load handler runs.
C6_ResolvedOnceOnSuccess ==
    /\ ready.resolved <= 1
    /\ ready.resolved = 1 => (ready.wiredAtResolve /\ LoadSucceeded)
    /\ LoadSucceeded => ready.resolved = 1

\* C6 as amended: window.__searchReady is resolved exactly once in every
\* execution in which the load succeeds and window.__searchReady was absent or
\* carried a function __resolve when the load handler ran, at most once in any
\* execution, and never before the listener is installed and window.__doSearch
\* defined; a window.__searchReady that exists without a function __resolve is
\* never resolved by this script.
C6_ResolvedOnceIfResolvable ==
    /\ ready.resolved <= 1
    /\ ready.resolved = 1 => (ready.wiredAtResolve /\ LoadSucceeded)
    /\ LoadSucceeded =>
          ready.resolved = (IF ready.initial = "foreign" THEN 0 ELSE 1)

\* the load succeeded with a deferred another script had created
C6_Witness ==
    /\ LoadSucceeded
    /\ ready.initial = "deferred"
    /\ ready.resolved = 1
    /\ ready.wiredAtResolve

\* C7: after wiring, at most one debounce timer is pending, and it is the one
\* of the latest input event, due DebounceMs after that event; a timer runs
\* doSearch only for an event that no other event followed, DebounceMs after
\* it, once, with the value the input holds at that moment; and once the
\* latest event's timer is gone that event has been served.
C7_OneTimerOneSearch ==
    /\ Cardinality(timers) <= 1
    /\ \A tm \in timers :
          tm.id = t /\ tm.ev = evCount /\ tm.left = DebounceMs - sinceInput
    /\ lastFire.ev > 0 =>
          /\ lastFire.ev = lastFire.evAtFire
          /\ lastFire.quiet = DebounceMs
          /\ lastFire.arg = lastFire.inputAtFire
          /\ ~lastFire.again
    /\ (t # 0 /\ timers = {}) => evCount \in served
    /\ \A ev \in served : ev <= evCount

\* two events in one burst: the first event's timer was cancelled, the second
\* event's timer ran doSearch
C7_Witness ==
    /\ evCount = 2
    /\ t = 2
    /\ served = {2}
    /\ lastFire.ev = 2
    /\ last.src = "timer"
    /\ last.searched

\* C10: the status text "Search failed to load." is shown only if search is
\* inert: the input listener was never installed and window.__doSearch never
\* defined; no step after the wiring replaces "Ready" with it.
C10_FailedOnlyIfInert ==
    statusText = FailedStatus => (~listener /\ ~doSearchDefined)

----------------------------------------------------------------------------
(* Properties of doSearch, stated for SpecRank *)

\* C8: for every query whose trimmed length is less than 2 (empty, null and
\* whitespace-only included), doSearch empties the results container and
\* returns without calling idx.search, sorting or calling render; "No results."
\* is not shown.
C8_ShortQueryClears ==
    (last.src # "none" /\ Len(trim(OrEmpty(last.q))) < MinQueryLen) =>
        /\ ~last.searched /\ ~last.sorted /\ ~last.rendered
        /\ resultsEl = EmptyResults
        /\ resultsEl # NoResults

\* doSearch has run on a query that is long before the trim and short after
C8_Witness ==
    /\ last.src = "api"
    /\ last.q = <<" ", "a", " ">>
    /\ resultsEl = EmptyResults

\* the number of entries of the sequence s that equal h
CountOf(s, h) == Cardinality({i \in 1..Len(s) : s[i] = h})

\* C9: for every query of trimmed length at least 2, the list doSearch passes
\* to render is in non-increasing score order, has min(20, number of hits)
\* entries, and consists of the highest-scoring hits: it is made of hits of the
\* index, and no hit left out has a score greater than a hit that is rendered.
C9_TopTwentyByScore ==
    last.searched =>
        /\ Len(last.top) = Min(TopN, Len(last.hits))
        /\ \A i \in 1..(Len(last.top) - 1) : last.top[i].score >= last.top[i + 1].score
        /\ \A i \in 1..Len(last.top) :
              CountOf(last.top, last.top[i]) <= CountOf(last.hits, last.top[i])
        /\ \A i \in 1..Len(last.hits) :
              CountOf(last.top, last.hits[i]) < CountOf(last.hits, last.hits[i])
                 => \A k \in 1..Len(last.top) : last.top[k].score >= last.hits[i].score
        /\ resultsEl.kind = (IF last.top = <<>> THEN "noresults" ELSE "ul")
        /\ Len(resultsEl.items) = Len(last.top)
        /\ \A i \in 1..Len(last.top) : resultsEl.items[i].ref = last.top[i].ref

\* more than 20 hits, not in score order, came back and 20 were rendered
C9_Witness ==
    /\ last.searched
    /\ Len(last.hits) > TopN
    /\ \E i \in 1..(Len(last.hits) - 1) : last.hits[i].score < last.hits[i + 1].score
    /\ Len(resultsEl.items) = TopN

====
